---- MODULE Spec2Model ----
(***************************************************************************)
(* Model of src/utils/retry.py: RetryConfig, the two retry decorators      *)
(* with_retry (failures are re-raised) and silent_retry (failures are      *)
(* replaced by default_return), and the predefined retry configurations.   *)
(*                                                                         *)
(* One execution is one call of a decorated function (the decorator's      *)
(* wrapper).  The wrapped function func is the environment: each of its    *)
(* invocations either returns a value or raises an exception of some       *)
(* class.  Durations are exact rationals <<numerator, denominator>>, so    *)
(* that factors such as 1.6 and 1.5 are computed, not rounded.             *)
(***************************************************************************)
EXTENDS Integers, Sequences, FiniteSets, TLC

VARIABLES
    pc,              \* per execution: "idle", "call" (about to invoke func), "sleep" (inside time.sleep), "done"
    strategy,        \* per execution: which decorator wraps func: "with_retry" or "silent_retry" ("none" while idle)
    omitted,         \* per execution: TRUE when the decorator was given no config (config=None)
    config,          \* per execution: the RetryConfig the wrapper closes over
    default_return,  \* per execution: silent_retry's default_return
    retry,           \* per execution: the loop variable of `for retry in range(...)`
    calls,           \* per execution: number of invocations of func so far
    outcomes,        \* per execution: what each invocation of func did, in order
    pending,         \* per execution: the argument of the time.sleep call in progress
    delays,          \* per execution: the delays slept so far, in order
    result,          \* per execution: how the wrapper ended (returned value or raised exception)
    log,             \* per execution: the logger records emitted, in order
    request          \* per execution: the max_retries argument when the call came through make_retryable_request

vars == <<pc, strategy, omitted, config, default_return, retry, calls,
          outcomes, pending, delays, result, log, request>>

----------------------------------------------------------------------------
(* Bounds of the model *)

\* policies built by the caller: max_retries ranges over 0..MaxGridRetries
MaxGridRetries == 2
\* policies built by the caller: delay ranges over 0..MaxGridDelay (seconds)
MaxGridDelay == 2
\* policies built by the caller: max_delay ranges over 0..MaxGridMaxDelay (seconds)
MaxGridMaxDelay == 3
\* policies built by the caller: delay_factor ranges over 2/2 .. MaxGridFactorHalves/2
MaxGridFactorHalves == 4
\* make_retryable_request: a max_retries argument ranges over 0..MaxRequestRetries
MaxRequestRetries == 2
\* unchecked RetryConfig arguments: max_retries, delay and max_delay range over -1..MaxUnchecked
MaxUnchecked == 1

\* the calls of a decorated function the model holds; Spec runs the first alone
Executions == {"main", "other"}

Single == {"main"}

----------------------------------------------------------------------------
(* Exact rational arithmetic for durations and factors *)

\* Euclid's algorithm on the pair p
GcdOf[p \in Nat \X Nat] == IF p[2] = 0 THEN p[1] ELSE GcdOf[<<p[2], p[1] % p[2]>>]

GCD(a, b) == GcdOf[<<a, b>>]

Abs(x) == IF x < 0 THEN -x ELSE x

\* q = <<n, d>> with d > 0, reduced to lowest terms
RNormOf[q \in Int \X Nat] ==
    LET g == GcdOf[<<Abs(q[1]), q[2]>>]
    IN  IF g = 0 THEN <<0, 1>> ELSE <<q[1] \div g, q[2] \div g>>

RNorm(q) == RNormOf[q]

R(n) == <<n, 1>>

Frac(n, d) == RNorm(<<n, d>>)

RMul(a, b) == RNorm(<<a[1] * b[1], a[2] * b[2]>>)

RLess(a, b) == a[1] * b[2] < b[1] * a[2]

RLeq(a, b) == a[1] * b[2] <= b[1] * a[2]

\* Python's min(a, b): b when b < a, else a
RMinOf[p \in (Int \X Nat) \X (Int \X Nat)] == IF RLess(p[2], p[1]) THEN p[2] ELSE p[1]

RMin(a, b) == RMinOf[<<a, b>>]

\* b ** n for integers b and n >= 0
IPowOf[p \in Int \X Nat] == IF p[2] = 0 THEN 1 ELSE p[1] * IPowOf[<<p[1], p[2] - 1>>]

IPow(b, n) == IPowOf[<<b, n>>]

\* Python's f ** n for an integer n >= 0
RPow(f, n) == RNorm(<<IPow(f[1], n), IPow(f[2], n)>>)

----------------------------------------------------------------------------
(* Exception classes *)

\* the classes the module names, with the bases between them and Exception
ExceptionClasses ==
    {"Exception", "OSError", "ValueError", "ConnectionError", "TimeoutError",
     "RequestException", "requests.ConnectionError", "HTTPError", "Timeout",
     "TooManyRedirects", "RetryableError"}

\* the direct base class of each class (Exception's own base is outside the model)
BaseOf(c) ==
    CASE c = "OSError" -> "Exception"
      [] c = "ValueError" -> "Exception"
      [] c = "RetryableError" -> "Exception"
      [] c = "ConnectionError" -> "OSError"
      [] c = "TimeoutError" -> "OSError"
      [] c = "RequestException" -> "OSError"
      [] c = "requests.ConnectionError" -> "RequestException"
      [] c = "HTTPError" -> "RequestException"
      [] c = "Timeout" -> "RequestException"
      [] c = "TooManyRedirects" -> "RequestException"
      [] OTHER -> "Exception"

\* the class c and all its base classes up to Exception
RECURSIVE Mro(_)
Mro(c) == IF c = "Exception" THEN {"Exception"} ELSE {c} \cup Mro(BaseOf(c))

\* `except classes as e` matches an exception of class kind
IsInstance(kind, classes) == (Mro(kind) \cap classes) # {}

\* the classes of the exceptions func raises in the model (all derive from Exception)
RaisedKinds == {"ConnectionError", "ValueError", "Timeout"}

\* the values func returns in the model
Values == {"v1", "v2"}

\* the values given as default_return
Defaults == {"None", "default"}

----------------------------------------------------------------------------
(* RetryConfig *)

\* retry_on_exceptions=None
NoneTuple == {"None"}

\* mutant: the default classes without the closing Exception
RetryConfig_network_only(max_retries, delay, delay_factor, max_delay, retry_on_exceptions) ==
    [max_retries |-> max_retries,
     delay |-> delay,
     delay_factor |-> delay_factor,
     max_delay |-> max_delay,
     retry_on_exceptions |->
        IF retry_on_exceptions = NoneTuple
        THEN {"RequestException", "requests.ConnectionError", "HTTPError",
              "Timeout", "TooManyRedirects", "ConnectionError", "TimeoutError"}
        ELSE retry_on_exceptions]

RetryConfig(max_retries, delay, delay_factor, max_delay, retry_on_exceptions) ==
    [max_retries |-> max_retries,
     delay |-> delay,
     delay_factor |-> delay_factor,
     max_delay |-> max_delay,
     retry_on_exceptions |->
        IF retry_on_exceptions = NoneTuple
        THEN {"RequestException", "requests.ConnectionError", "HTTPError",
              "Timeout", "TooManyRedirects", "ConnectionError", "TimeoutError",
              "Exception"}
        ELSE retry_on_exceptions]

DEFAULT_RETRY_CONFIG == RetryConfig(3, R(1), R(2), R(60), NoneTuple)

LLM_RETRY_CONFIG == RetryConfig(6, R(60), R(2), R(600), NoneTuple)

SEARCH_API_RETRY_CONFIG == RetryConfig(5, R(2), Frac(16, 10), R(25), NoneTuple)

DB_RETRY_CONFIG == RetryConfig(5, R(1), Frac(15, 10), R(10), NoneTuple)

\* the configuration of the module's self-test
test_config == RetryConfig(3, R(1), R(2), R(1), NoneTuple)

\* the policy of the specification's scenarios
SCENARIO_CONFIG == RetryConfig(3, R(1), R(2), R(10), NoneTuple)

\* config=None
NoneConfig == [max_retries |-> 0, delay |-> R(0), delay_factor |-> R(0),
               max_delay |-> R(0), retry_on_exceptions |-> NoneTuple]

\* the retry_on_exceptions arguments of the policies built by the caller
TupleArgs ==
    {NoneTuple, {"ConnectionError"}, {"RequestException", "ConnectionError", "TimeoutError"}}

\* the policies built by the caller: non-negative durations, factor >= 1
GridConfigs ==
    {RetryConfig(r, R(d), Frac(f, 2), R(m), t) :
        r \in 0..MaxGridRetries, d \in 0..MaxGridDelay,
        f \in 2..MaxGridFactorHalves, m \in 0..MaxGridMaxDelay, t \in TupleArgs}

\* whatever RetryConfig.__init__ accepts: it stores its arguments as they come,
\* negative counts and durations and factors below 1 included
UncheckedConfigs ==
    {RetryConfig(r, R(d), f, R(m), t) :
        r \in (-1)..MaxUnchecked, d \in (-1)..MaxUnchecked,
        f \in {Frac(1, 2), R(1), R(2)}, m \in (-1)..MaxUnchecked, t \in TupleArgs}

\* a narrowed policy with the scenario's numbers
NARROW_SCENARIO_CONFIG == RetryConfig(3, R(1), R(2), R(10), {"ConnectionError"})

Configs ==
    GridConfigs \cup
    {DEFAULT_RETRY_CONFIG, LLM_RETRY_CONFIG, SEARCH_API_RETRY_CONFIG,
     DB_RETRY_CONFIG, test_config, SCENARIO_CONFIG, NARROW_SCENARIO_CONFIG}

ConfigArgs == Configs \cup {NoneConfig}

----------------------------------------------------------------------------
(* Outcomes of func, results of the wrapper, logger records *)

NoExc == [kind |-> "none", id |-> 0]

\* invocation number n of func returns v
Success(v, n) == [ok |-> TRUE, value |-> v, exc |-> NoExc]

\* invocation number n of func raises a new exception of class k
Failure(k, n) == [ok |-> FALSE, value |-> "none", exc |-> [kind |-> k, id |-> n]]

\* what invocation number n of func can do
FuncOutcomes(n) ==
    {Success(v, n) : v \in Values} \cup {Failure(k, n) : k \in RaisedKinds}

NoResult == [tag |-> "none", value |-> "none", exc |-> NoExc]

Return(v) == [tag |-> "return", value |-> v, exc |-> NoExc]

Raise(e) == [tag |-> "raise", value |-> "none", exc |-> e]

NoDelay == <<-1, 1>>

\* the call did not come through make_retryable_request
NoRequest == [made |-> FALSE, given |-> FALSE, max_retries |-> 0]

Rec(level, msg, n) == [level |-> level, msg |-> msg, n |-> n]

----------------------------------------------------------------------------
(* time.sleep *)

\* time.sleep(d) raises ValueError for a negative d
SleepRaises(d) == RLess(d, R(0))

\* the ValueError raised by time.sleep (not an exception of func: id 0)
SleepError == [kind |-> "ValueError", id |-> 0]

----------------------------------------------------------------------------
(* with_retry *)

\* if config is None: config = DEFAULT_RETRY_CONFIG
with_retry_config(cfg) == IF cfg = NoneConfig THEN DEFAULT_RETRY_CONFIG ELSE cfg

\* mutant: range(config.max_retries), the first attempt counted as a retry
with_retry_range_short(cfg) == 0..(cfg.max_retries - 1)

\* range(config.max_retries + 1)
with_retry_range(cfg) == 0..((cfg.max_retries + 1) - 1)

\* mutant: except Exception as e, whatever the configured classes
with_retry_catches_all(cfg, kind) == IsInstance(kind, {"Exception"})

\* except config.retry_on_exceptions as e
with_retry_catches(cfg, kind) == IsInstance(kind, cfg.retry_on_exceptions)

\* mutant: the last attempt recognised one iteration early
with_retry_last_early(cfg, r) == r >= cfg.max_retries - 1

\* mutant: the last attempt never recognised
with_retry_last_never(cfg, r) == r > cfg.max_retries

\* if retry == config.max_retries
with_retry_last(cfg, r) == r = cfg.max_retries

\* mutant: the cap max_delay left out
with_retry_delay_uncapped(cfg, r) == RMul(cfg.delay, RPow(cfg.delay_factor, r))

\* mutant: the exponent counts attempts from 1
with_retry_delay_shifted(cfg, r) ==
    RMin(RMul(cfg.delay, RPow(cfg.delay_factor, r + 1)), cfg.max_delay)

\* delay = min(config.delay * (config.delay_factor ** retry), config.max_delay)
with_retry_delay(cfg, r) ==
    RMin(RMul(cfg.delay, RPow(cfg.delay_factor, r)), cfg.max_delay)

\* mutant: if retry >= 0, the first attempt logged as a recovery
with_retry_recovered_always(r) == r >= 0

\* if retry > 0: logger.info(...)
with_retry_recovered(r) == r > 0

\* return result
with_retry_success(o) == Return(o.value)

\* mutant: return None in place of raise e
with_retry_exhausted_swallowed(e) == Return("None")

\* the last attempt failed too: raise e
with_retry_exhausted(e) == Raise(e)

\* an exception outside retry_on_exceptions: raise e
with_retry_abort(e) == Raise(e)

\* the decorated function is called: the wrapper enters its for loop
CallWithRetryWith(x, args) ==
    /\ pc[x] = "idle"
    /\ \E arg \in args :
        LET cfg == with_retry_config(arg) IN
        /\ strategy' = [strategy EXCEPT ![x] = "with_retry"]
        /\ omitted' = [omitted EXCEPT ![x] = (arg = NoneConfig)]
        /\ config' = [config EXCEPT ![x] = cfg]
        /\ IF 0 \in with_retry_range(cfg)
           THEN /\ pc' = [pc EXCEPT ![x] = "call"]
                /\ result' = result
           ELSE \* the loop body never runs and the wrapper returns None
                /\ pc' = [pc EXCEPT ![x] = "done"]
                /\ result' = [result EXCEPT ![x] = Return("None")]
    /\ retry' = [retry EXCEPT ![x] = 0]
    /\ UNCHANGED <<default_return, calls, outcomes, pending, delays, log, request>>

\* the decorated function is called with any of the configurations of Configs, or none
CallWithRetry(x) == CallWithRetryWith(x, ConfigArgs)

\* one iteration of the wrapper's loop, up to its return, raise or time.sleep call,
\* func doing one of outs
WithRetryAttemptOn(x, outs) ==
    /\ pc[x] = "call"
    /\ strategy[x] = "with_retry"
    /\ \E o \in outs :
        LET cfg == config[x]
            r == retry[x]
        IN
        /\ calls' = [calls EXCEPT ![x] = @ + 1]
        /\ outcomes' = [outcomes EXCEPT ![x] = Append(@, o)]
        /\ IF o.ok
           THEN /\ log' = [log EXCEPT ![x] =
                      IF with_retry_recovered(r)
                      THEN Append(@, Rec("info", "recovered", r)) ELSE @]
                /\ result' = [result EXCEPT ![x] = with_retry_success(o)]
                /\ pc' = [pc EXCEPT ![x] = "done"]
                /\ pending' = pending
           ELSE IF with_retry_catches(cfg, o.exc.kind)
           THEN IF with_retry_last(cfg, r)
                THEN /\ log' = [log EXCEPT ![x] =
                           @ \o <<Rec("error", "exhausted", cfg.max_retries),
                                  Rec("error", "final_error", r)>>]
                     /\ result' = [result EXCEPT ![x] = with_retry_exhausted(o.exc)]
                     /\ pc' = [pc EXCEPT ![x] = "done"]
                     /\ pending' = pending
                ELSE /\ log' = [log EXCEPT ![x] =
                           @ \o <<Rec("warning", "attempt_failed", r + 1),
                                  Rec("info", "retry_scheduled", r + 1)>>]
                     /\ pending' = [pending EXCEPT ![x] = with_retry_delay(cfg, r)]
                     /\ pc' = [pc EXCEPT ![x] = "sleep"]
                     /\ result' = result
           ELSE /\ log' = [log EXCEPT ![x] = Append(@, Rec("error", "not_retryable", r))]
                /\ result' = [result EXCEPT ![x] = with_retry_abort(o.exc)]
                /\ pc' = [pc EXCEPT ![x] = "done"]
                /\ pending' = pending
    /\ UNCHANGED <<strategy, omitted, config, default_return, retry, delays, request>>

\* one iteration of the wrapper's loop, func free to return or raise
WithRetryAttempt(x) == WithRetryAttemptOn(x, FuncOutcomes(calls[x] + 1))

\* mutant: the loop counter kept in one place for all the executions
WithRetrySleep_shared_counter(x) ==
    /\ pc[x] = "sleep"
    /\ strategy[x] = "with_retry"
    /\ pending' = [pending EXCEPT ![x] = NoDelay]
    /\ delays' = [delays EXCEPT ![x] = Append(@, pending[x])]
    /\ retry' = [y \in Executions |-> retry[y] + 1]
    /\ pc' = [pc EXCEPT ![x] = "call"]
    /\ UNCHANGED <<strategy, omitted, config, default_return, calls, outcomes, log,
                   request, result>>

\* time.sleep(delay) ends and the for loop takes its next value, if any
WithRetrySleep(x) ==
    /\ pc[x] = "sleep"
    /\ strategy[x] = "with_retry"
    /\ pending' = [pending EXCEPT ![x] = NoDelay]
    /\ IF SleepRaises(pending[x])
       THEN \* raised inside the except block: it leaves the wrapper
            /\ result' = [result EXCEPT ![x] = Raise(SleepError)]
            /\ pc' = [pc EXCEPT ![x] = "done"]
            /\ UNCHANGED <<delays, retry>>
       ELSE /\ delays' = [delays EXCEPT ![x] = Append(@, pending[x])]
            /\ IF retry[x] + 1 \in with_retry_range(config[x])
               THEN /\ retry' = [retry EXCEPT ![x] = @ + 1]
                    /\ pc' = [pc EXCEPT ![x] = "call"]
                    /\ result' = result
               ELSE \* the range is used up: the wrapper returns None
                    /\ retry' = retry
                    /\ pc' = [pc EXCEPT ![x] = "done"]
                    /\ result' = [result EXCEPT ![x] = Return("None")]
    /\ UNCHANGED <<strategy, omitted, config, default_return, calls, outcomes, log, request>>

----------------------------------------------------------------------------
(* make_retryable_request *)

\* max_retries: int = 5
make_retryable_request_max_retries == 5

\* the max_retries arguments of the model: one given by the caller, or none
RequestArgs ==
    {[made |-> TRUE, given |-> TRUE, max_retries |-> m] : m \in 0..MaxRequestRetries}
    \cup {[made |-> TRUE, given |-> FALSE, max_retries |-> make_retryable_request_max_retries]}

\* mutant: RetryConfig() built without the max_retries argument
make_retryable_request_config_ignored(max_retries) ==
    RetryConfig(3, R(1), R(2), R(60), NoneTuple)

\* config = RetryConfig(max_retries=max_retries), the other parameters at their defaults
make_retryable_request_config(max_retries) ==
    RetryConfig(max_retries, R(1), R(2), R(60), NoneTuple)

\* make_retryable_request(request_func, max_retries=...) up to the first
\* iteration of the with_retry wrapper around _execute
CallMakeRetryableRequestWith(x, args) ==
    /\ pc[x] = "idle"
    /\ \E arg \in args :
        LET cfg == with_retry_config(make_retryable_request_config(arg.max_retries)) IN
        /\ request' = [request EXCEPT ![x] = arg]
        /\ strategy' = [strategy EXCEPT ![x] = "with_retry"]
        /\ config' = [config EXCEPT ![x] = cfg]
        /\ IF 0 \in with_retry_range(cfg)
           THEN /\ pc' = [pc EXCEPT ![x] = "call"]
                /\ result' = result
           ELSE \* the loop body never runs and _execute returns None
                /\ pc' = [pc EXCEPT ![x] = "done"]
                /\ result' = [result EXCEPT ![x] = Return("None")]
    /\ retry' = [retry EXCEPT ![x] = 0]
    /\ UNCHANGED <<omitted, default_return, calls, outcomes, pending, delays, log>>

CallMakeRetryableRequest(x) == CallMakeRetryableRequestWith(x, RequestArgs)

----------------------------------------------------------------------------
(* silent_retry *)

\* if config is None: config = SEARCH_API_RETRY_CONFIG
silent_retry_config(cfg) == IF cfg = NoneConfig THEN SEARCH_API_RETRY_CONFIG ELSE cfg

\* range(config.max_retries + 1)
silent_retry_range(cfg) == 0..((cfg.max_retries + 1) - 1)

\* mutant: except Exception as e, whatever the configured classes
silent_retry_catches_all(cfg, kind) == IsInstance(kind, {"Exception"})

\* except config.retry_on_exceptions as e
silent_retry_catches(cfg, kind) == IsInstance(kind, cfg.retry_on_exceptions)

\* mutant: the attempt before the last taken for the last
silent_retry_last_early(cfg, r) == r >= cfg.max_retries - 1

\* mutant: the last attempt never recognised
silent_retry_last_never(cfg, r) == r > cfg.max_retries

\* if retry == config.max_retries
silent_retry_last(cfg, r) == r = cfg.max_retries

\* mutant: the factor applied once instead of retry times
silent_retry_delay_flat(cfg, r) == RMin(RMul(cfg.delay, cfg.delay_factor), cfg.max_delay)

\* delay = min(config.delay * (config.delay_factor ** retry), config.max_delay)
silent_retry_delay(cfg, r) ==
    RMin(RMul(cfg.delay, RPow(cfg.delay_factor, r)), cfg.max_delay)

\* if retry > 0: logger.info(...)
silent_retry_recovered(r) == r > 0

\* return result
silent_retry_success(o) == Return(o.value)

\* the last attempt failed too: return default_return
silent_retry_exhausted(e, dflt) == Return(dflt)

\* mutant: raise e as with_retry does
silent_retry_abort_raised(e, dflt) == Raise(e)

\* an exception outside retry_on_exceptions: return default_return
silent_retry_abort(e, dflt) == Return(dflt)

\* the decorated function is called: the wrapper enters its for loop
CallSilentRetryWith(x, args) ==
    /\ pc[x] = "idle"
    /\ \E arg \in args, dflt \in Defaults :
        LET cfg == silent_retry_config(arg) IN
        /\ strategy' = [strategy EXCEPT ![x] = "silent_retry"]
        /\ omitted' = [omitted EXCEPT ![x] = (arg = NoneConfig)]
        /\ config' = [config EXCEPT ![x] = cfg]
        /\ default_return' = [default_return EXCEPT ![x] = dflt]
        /\ IF 0 \in silent_retry_range(cfg)
           THEN /\ pc' = [pc EXCEPT ![x] = "call"]
                /\ result' = result
           ELSE \* the loop body never runs and the wrapper returns None
                /\ pc' = [pc EXCEPT ![x] = "done"]
                /\ result' = [result EXCEPT ![x] = Return("None")]
    /\ retry' = [retry EXCEPT ![x] = 0]
    /\ UNCHANGED <<calls, outcomes, pending, delays, log, request>>

\* the decorated function is called with any of the configurations of Configs, or none
CallSilentRetry(x) == CallSilentRetryWith(x, ConfigArgs)

\* one iteration of the wrapper's loop, up to its return or time.sleep call,
\* func doing one of outs
SilentRetryAttemptOn(x, outs) ==
    /\ pc[x] = "call"
    /\ strategy[x] = "silent_retry"
    /\ \E o \in outs :
        LET cfg == config[x]
            r == retry[x]
        IN
        /\ calls' = [calls EXCEPT ![x] = @ + 1]
        /\ outcomes' = [outcomes EXCEPT ![x] = Append(@, o)]
        /\ IF o.ok
           THEN /\ log' = [log EXCEPT ![x] =
                      IF silent_retry_recovered(r)
                      THEN Append(@, Rec("info", "recovered", r)) ELSE @]
                /\ result' = [result EXCEPT ![x] = silent_retry_success(o)]
                /\ pc' = [pc EXCEPT ![x] = "done"]
                /\ pending' = pending
           ELSE IF silent_retry_catches(cfg, o.exc.kind)
           THEN IF silent_retry_last(cfg, r)
                THEN /\ log' = [log EXCEPT ![x] =
                           @ \o <<Rec("warning", "exhausted", cfg.max_retries),
                                  Rec("info", "return_default", r)>>]
                     /\ result' = [result EXCEPT ![x] =
                           silent_retry_exhausted(o.exc, default_return[x])]
                     /\ pc' = [pc EXCEPT ![x] = "done"]
                     /\ pending' = pending
                ELSE /\ log' = [log EXCEPT ![x] =
                           @ \o <<Rec("warning", "attempt_failed", r + 1),
                                  Rec("info", "retry_scheduled", r + 1)>>]
                     /\ pending' = [pending EXCEPT ![x] = silent_retry_delay(cfg, r)]
                     /\ pc' = [pc EXCEPT ![x] = "sleep"]
                     /\ result' = result
           ELSE /\ log' = [log EXCEPT ![x] =
                      @ \o <<Rec("warning", "not_retryable", r),
                             Rec("info", "return_default", r)>>]
                /\ result' = [result EXCEPT ![x] =
                      silent_retry_abort(o.exc, default_return[x])]
                /\ pc' = [pc EXCEPT ![x] = "done"]
                /\ pending' = pending
    /\ UNCHANGED <<strategy, omitted, config, default_return, retry, delays, request>>

\* one iteration of the wrapper's loop, func free to return or raise
SilentRetryAttempt(x) == SilentRetryAttemptOn(x, FuncOutcomes(calls[x] + 1))

\* time.sleep(delay) ends and the for loop takes its next value, if any
SilentRetrySleep(x) ==
    /\ pc[x] = "sleep"
    /\ strategy[x] = "silent_retry"
    /\ pending' = [pending EXCEPT ![x] = NoDelay]
    /\ IF SleepRaises(pending[x])
       THEN \* raised inside the except block: it leaves the wrapper
            /\ result' = [result EXCEPT ![x] = Raise(SleepError)]
            /\ pc' = [pc EXCEPT ![x] = "done"]
            /\ UNCHANGED <<delays, retry>>
       ELSE /\ delays' = [delays EXCEPT ![x] = Append(@, pending[x])]
            /\ IF retry[x] + 1 \in silent_retry_range(config[x])
               THEN /\ retry' = [retry EXCEPT ![x] = @ + 1]
                    /\ pc' = [pc EXCEPT ![x] = "call"]
                    /\ result' = result
               ELSE \* the range is used up: the wrapper returns None
                    /\ retry' = retry
                    /\ pc' = [pc EXCEPT ![x] = "done"]
                    /\ result' = [result EXCEPT ![x] = Return("None")]
    /\ UNCHANGED <<strategy, omitted, config, default_return, calls, outcomes, log, request>>

----------------------------------------------------------------------------
(* The specification *)

Init ==
    /\ pc = [x \in Executions |-> "idle"]
    /\ strategy = [x \in Executions |-> "none"]
    /\ omitted = [x \in Executions |-> FALSE]
    /\ config = [x \in Executions |-> NoneConfig]
    /\ default_return = [x \in Executions |-> "None"]
    /\ retry = [x \in Executions |-> 0]
    /\ calls = [x \in Executions |-> 0]
    /\ outcomes = [x \in Executions |-> <<>>]
    /\ pending = [x \in Executions |-> NoDelay]
    /\ delays = [x \in Executions |-> <<>>]
    /\ result = [x \in Executions |-> NoResult]
    /\ log = [x \in Executions |-> <<>>]
    /\ request = [x \in Executions |-> NoRequest]

Next ==
    \E x \in Single :
        \/ CallWithRetry(x)
        \/ WithRetryAttempt(x)
        \/ WithRetrySleep(x)
        \/ CallSilentRetry(x)
        \/ SilentRetryAttempt(x)
        \/ SilentRetrySleep(x)
        \/ CallMakeRetryableRequest(x)

Spec == Init /\ [][Next]_vars

\* every invocation of func returns or raises, and every time.sleep call ends
Running ==
    \E x \in Single :
        \/ WithRetryAttempt(x)
        \/ WithRetrySleep(x)
        \/ SilentRetryAttempt(x)
        \/ SilentRetrySleep(x)

Progress == WF_vars(Running)

LiveSpec == Init /\ [][Next]_vars /\ Progress

\* one execution, the policy being any RetryConfig the constructor accepts
NextUnchecked ==
    \E x \in Single :
        \/ CallWithRetryWith(x, UncheckedConfigs)
        \/ WithRetryAttempt(x)
        \/ WithRetrySleep(x)
        \/ CallSilentRetryWith(x, UncheckedConfigs)
        \/ SilentRetryAttempt(x)
        \/ SilentRetrySleep(x)

SpecUnchecked == Init /\ [][NextUnchecked]_vars

\* the policy of an execution that runs beside y: the one y was given, if any
PairArgs(y) == IF pc[y] = "idle" THEN Configs ELSE {config[y]}

\* what invocation number calls[x] + 1 of x's func does when the funcs of x and y
\* behave alike: what the same invocation of y's func did, if it took place
PairOutcomes(x, y) ==
    IF Len(outcomes[y]) > calls[x]
    THEN {outcomes[y][calls[x] + 1]}
    ELSE FuncOutcomes(calls[x] + 1)

\* one function decorated with with_retry and one with silent_retry, both with
\* the same RetryConfig, their funcs returning and raising alike
NextPair ==
    \/ CallWithRetryWith("main", PairArgs("other"))
    \/ WithRetryAttemptOn("main", PairOutcomes("main", "other"))
    \/ WithRetrySleep("main")
    \/ CallSilentRetryWith("other", PairArgs("main"))
    \/ SilentRetryAttemptOn("other", PairOutcomes("other", "main"))
    \/ SilentRetrySleep("other")

SpecPair == Init /\ [][NextPair]_vars

\* the policies that two executions share
SharedConfigs == {test_config, NARROW_SCENARIO_CONFIG}

\* the policy of a new execution: the RetryConfig instance the running ones use
SharedArgs(x) ==
    LET running == {y \in Executions \ {x} : pc[y] # "idle"}
    IN  IF running = {} THEN SharedConfigs ELSE {config[y] : y \in running}

\* two decorated functions with one RetryConfig instance, called from two
\* threads: the steps of the two wrappers interleave in every order
NextShared ==
    \E x \in Executions :
        \/ CallWithRetryWith(x, SharedArgs(x))
        \/ WithRetryAttempt(x)
        \/ WithRetrySleep(x)
        \/ CallSilentRetryWith(x, SharedArgs(x))
        \/ SilentRetryAttempt(x)
        \/ SilentRetrySleep(x)

SpecShared == Init /\ [][NextShared]_vars

----------------------------------------------------------------------------
(* Vocabulary of the properties *)

Started(x) == pc[x] # "idle"

Terminated(x) == pc[x] = "done"

\* invocation i of func failed with an exception the policy lists for retry
RetryableAt(x, i) ==
    /\ ~outcomes[x][i].ok
    /\ IsInstance(outcomes[x][i].exc.kind, config[x].retry_on_exceptions)

\* invocation i of func failed with an exception the policy does not list
FatalAt(x, i) ==
    /\ ~outcomes[x][i].ok
    /\ ~IsInstance(outcomes[x][i].exc.kind, config[x].retry_on_exceptions)

\* every invocation of func so far failed with a retryable exception
AllRetryableFailures(x) == \A i \in 1..Len(outcomes[x]) : RetryableAt(x, i)

\* min(initialDelay * backoffFactor^n, maxDelay)
DelayForAttempt(cfg, n) ==
    LET raw == RMul(cfg.delay, RPow(cfg.delay_factor, n))
    IN  IF RLeq(raw, cfg.max_delay) THEN raw ELSE cfg.max_delay

Scheduled(x) == {i \in 1..Len(log[x]) : log[x][i].msg = "retry_scheduled"}

----------------------------------------------------------------------------
(* Properties *)

\* C1: under both decorators and for every policy with max_retries = r >= 0, a
\* function whose every invocation fails with a retryable exception is invoked
\* exactly r+1 times: never more, and the execution has ended exactly when the
\* count has reached r+1.
C1_PermanentFailureInvokedRPlusOne ==
    \A x \in Executions :
        (Started(x) /\ config[x].max_retries >= 0 /\ AllRetryableFailures(x)) =>
            /\ calls[x] = Len(outcomes[x])
            /\ calls[x] <= config[x].max_retries + 1
            /\ Terminated(x) <=> (calls[x] = config[x].max_retries + 1)

C1_Witness ==
    \E x \in Executions :
        /\ Terminated(x)
        /\ strategy[x] = "silent_retry"
        /\ config[x] = test_config
        /\ AllRetryableFailures(x)
        /\ calls[x] = 4

\* C2: under both decorators and for every k in 0..max_retries, when the first k
\* invocations fail with retryable exceptions the execution goes on to invocation
\* k+1, and when that one succeeds the execution ends returning its value after
\* exactly k+1 invocations (also for k = max_retries).
C2_SuccessAfterKFailuresReturned ==
    \A x \in Executions :
        Started(x) =>
            \A k \in 0..config[x].max_retries :
                (Len(outcomes[x]) >= k /\ \A i \in 1..k : RetryableAt(x, i)) =>
                    /\ (Len(outcomes[x]) = k) => pc[x] \in {"call", "sleep"}
                    /\ (Len(outcomes[x]) > k /\ outcomes[x][k + 1].ok) =>
                            /\ Terminated(x)
                            /\ calls[x] = k + 1
                            /\ result[x] = Return(outcomes[x][k + 1].value)

C2_Witness ==
    \E x \in Executions :
        /\ Terminated(x)
        /\ strategy[x] = "with_retry"
        /\ config[x].max_retries = 3
        /\ calls[x] = 4
        /\ \A i \in 1..3 : RetryableAt(x, i)
        /\ outcomes[x][4].ok
        /\ result[x] = Return("v2")

\* C3: under silent_retry every execution whose last invocation failed, by using
\* up the retries or by an exception outside retry_on_exceptions at any attempt,
\* returns default_return and raises nothing.
C3_SilentFailureReturnsDefault ==
    \A x \in Executions :
        (strategy[x] = "silent_retry" /\ Terminated(x) /\ Len(outcomes[x]) >= 1
            /\ ~outcomes[x][Len(outcomes[x])].ok) =>
                /\ result[x].tag = "return"
                /\ result[x] = Return(default_return[x])

C3_Witness ==
    \E x \in Executions :
        /\ strategy[x] = "silent_retry"
        /\ Terminated(x)
        /\ Len(outcomes[x]) = 2
        /\ RetryableAt(x, 1)
        /\ FatalAt(x, 2)
        /\ default_return[x] = "default"
        /\ result[x] = Return("default")

\* C4: under with_retry, when all max_retries+1 invocations fail with retryable
\* exceptions, the execution ends by raising the very exception of the last
\* invocation and returns no value.
C4_ExhaustionRaisesLastFailure ==
    \A x \in Executions :
        (strategy[x] = "with_retry" /\ Terminated(x) /\ config[x].max_retries >= 0
            /\ Len(outcomes[x]) = config[x].max_retries + 1
            /\ AllRetryableFailures(x)) =>
                /\ result[x].tag = "raise"
                /\ result[x].value = "none"
                /\ result[x].exc = outcomes[x][config[x].max_retries + 1].exc
                /\ result[x].exc.id = config[x].max_retries + 1

C4_Witness ==
    \E x \in Executions :
        /\ strategy[x] = "with_retry"
        /\ Terminated(x)
        /\ config[x] = test_config
        /\ AllRetryableFailures(x)
        /\ Len(outcomes[x]) = 4
        /\ outcomes[x][1].exc.kind = "Timeout"
        /\ result[x] = Raise([kind |-> "ConnectionError", id |-> 4])

\* C5: whatever the policy and max_retries, when the first invocation fails with
\* an exception outside retry_on_exceptions, func is invoked exactly once, no
\* delay is computed or slept, and the execution ends at once: with_retry raises
\* that exception, silent_retry returns default_return.
C5_FatalFirstAttemptSingleInvocation ==
    \A x \in Executions :
        (Len(outcomes[x]) >= 1 /\ FatalAt(x, 1)) =>
            /\ calls[x] = 1
            /\ Terminated(x)
            /\ delays[x] = <<>>
            /\ pending[x] = NoDelay
            /\ Scheduled(x) = {}
            /\ (strategy[x] = "with_retry") => result[x] = Raise(outcomes[x][1].exc)
            /\ (strategy[x] = "silent_retry") => result[x] = Return(default_return[x])

C5_Witness ==
    \E x \in Executions :
        /\ config[x] = NARROW_SCENARIO_CONFIG
        /\ strategy[x] = "silent_retry"
        /\ Len(outcomes[x]) = 1
        /\ outcomes[x][1].exc.kind = "ValueError"
        /\ FatalAt(x, 1)
        /\ Terminated(x)

\* C6: a ValueError raised by func is fatal under every policy, the default
\* policy and the presets included: func is invoked exactly once and no retry
\* or delay follows.
C6_ValueErrorAlwaysFatal ==
    \A x \in Executions :
        (Len(outcomes[x]) >= 1 /\ ~outcomes[x][1].ok
            /\ outcomes[x][1].exc.kind = "ValueError") =>
                /\ calls[x] = 1
                /\ Terminated(x)
                /\ delays[x] = <<>>
                /\ pending[x] = NoDelay

\* C7: for every policy with delay >= 0 and delay_factor >= 1, the delays slept
\* (and the one being slept) never decrease from one retry to the next and none
\* exceeds max_delay.
C7_DelaysMonotoneAndCapped ==
    \A x \in Executions :
        (Started(x) /\ RLeq(R(0), config[x].delay) /\ RLeq(R(1), config[x].delay_factor)) =>
            LET ds == IF pc[x] = "sleep" THEN Append(delays[x], pending[x]) ELSE delays[x]
            IN  /\ \A i \in 1..Len(ds) : RLeq(ds[i], config[x].max_delay)
                /\ \A i \in 1..(Len(ds) - 1) : RLeq(ds[i], ds[i + 1])

C7_Witness ==
    \E x \in Executions :
        /\ config[x] = SEARCH_API_RETRY_CONFIG
        /\ strategy[x] = "with_retry"
        /\ pc[x] = "sleep"
        /\ Len(delays[x]) = 4
        /\ \A i \in 1..3 : RLess(delays[x][i], delays[x][i + 1])
        /\ delays[x][4] = Frac(8192, 1000)
        /\ pending[x] = Frac(131072, 10000)

\* C8: the delay slept after the failed attempt of 0-based index n is
\* min(delay * delay_factor^n, max_delay), one delay per failed attempt that is
\* retried; and with max_retries=3, delay=1, delay_factor=2, max_delay=10, when
\* attempts 1 to 3 fail and attempt 4 succeeds, the result is the value of
\* attempt 4 and the delays slept are exactly 1, 2, 4.
C8_DelayFormulaAndScenario ==
    \A x \in Executions :
        Started(x) =>
            /\ \A n \in 0..(Len(delays[x]) - 1) :
                    delays[x][n + 1] = DelayForAttempt(config[x], n)
            /\ (pc[x] = "sleep") =>
                    /\ pending[x] = DelayForAttempt(config[x], Len(delays[x]))
                    /\ Len(delays[x]) = calls[x] - 1
            /\ (pc[x] = "call") => Len(delays[x]) = calls[x]
            /\ (/\ config[x].max_retries = 3
                /\ config[x].delay = R(1)
                /\ config[x].delay_factor = R(2)
                /\ config[x].max_delay = R(10)
                /\ Len(outcomes[x]) = 4
                /\ \A i \in 1..3 : RetryableAt(x, i)
                /\ outcomes[x][4].ok) =>
                    /\ Terminated(x)
                    /\ result[x] = Return(outcomes[x][4].value)
                    /\ delays[x] = <<R(1), R(2), R(4)>>

C8_Witness ==
    \E x \in Executions :
        /\ config[x] = SCENARIO_CONFIG
        /\ strategy[x] = "with_retry"
        /\ Terminated(x)
        /\ Len(outcomes[x]) = 4
        /\ outcomes[x][4].ok
        /\ delays[x] = <<R(1), R(2), R(4)>>

\* C9: a decorator given no config uses DEFAULT_RETRY_CONFIG (max_retries=3,
\* delay=1, delay_factor=2, max_delay=60), with_retry and silent_retry alike, so
\* that on a function that always fails both make 4 invocations.
C9_OmittedConfigIsDefault ==
    \A x \in Executions :
        (Started(x) /\ omitted[x]) =>
            /\ config[x] = DEFAULT_RETRY_CONFIG
            /\ config[x] = RetryConfig(3, R(1), R(2), R(60), NoneTuple)
            /\ (Terminated(x) /\ AllRetryableFailures(x)) => calls[x] = 4

\* C10: with LLM_RETRY_CONFIG (max_retries=6, delay=60, delay_factor=2,
\* max_delay=600) a function that always fails is invoked exactly 7 times and
\* the six delays slept are 60, 120, 240, 480, 600, 600 in that order.
C10_LLMPresetDelays ==
    /\ LLM_RETRY_CONFIG.max_retries = 6
    /\ LLM_RETRY_CONFIG.delay = R(60)
    /\ LLM_RETRY_CONFIG.delay_factor = R(2)
    /\ LLM_RETRY_CONFIG.max_delay = R(600)
    /\ \A x \in Executions :
        (config[x] = LLM_RETRY_CONFIG /\ Started(x) /\ ~(\E i \in 1..Len(outcomes[x]) : outcomes[x][i].ok)) =>
            /\ delays[x] = SubSeq(<<R(60), R(120), R(240), R(480), R(600), R(600)>>,
                                  1, Len(delays[x]))
            /\ Terminated(x) => (calls[x] = 7 /\ Len(delays[x]) = 6)
            /\ (calls[x] = 7) => Terminated(x)

C10_Witness ==
    \E x \in Executions :
        /\ config[x] = LLM_RETRY_CONFIG
        /\ strategy[x] = "silent_retry"
        /\ Terminated(x)
        /\ calls[x] = 7
        /\ ~(\E i \in 1..7 : outcomes[x][i].ok)
        /\ delays[x] = <<R(60), R(120), R(240), R(480), R(600), R(600)>>

\* C11: an exception outside retry_on_exceptions at any attempt, after earlier
\* retryable failures and delays too, ends the execution at once: it is the last
\* invocation, no delay is computed or slept after it although retries remain,
\* with_retry raises that exception and silent_retry returns default_return.
C11_FatalAtAnyAttemptTerminates ==
    \A x \in Executions :
        \A i \in 1..Len(outcomes[x]) :
            FatalAt(x, i) =>
                /\ Len(outcomes[x]) = i
                /\ calls[x] = i
                /\ Terminated(x)
                /\ Len(delays[x]) = i - 1
                /\ pending[x] = NoDelay
                /\ Cardinality(Scheduled(x)) = i - 1
                /\ (strategy[x] = "with_retry") => result[x] = Raise(outcomes[x][i].exc)
                /\ (strategy[x] = "silent_retry") => result[x] = Return(default_return[x])

C11_Witness ==
    \E x \in Executions :
        /\ config[x] = NARROW_SCENARIO_CONFIG
        /\ strategy[x] = "with_retry"
        /\ Len(outcomes[x]) = 2
        /\ RetryableAt(x, 1)
        /\ FatalAt(x, 2)
        /\ delays[x] = <<R(1)>>
        /\ result[x] = Raise([kind |-> "Timeout", id |-> 2])

\* C20: make_retryable_request(request_func, max_retries=m) behaves as a
\* with_retry execution under max_retries=m, delay=1, delay_factor=2,
\* max_delay=60 and the default exception classes: request_func is invoked at
\* most m+1 times (6 when max_retries is not given), the value of the first
\* successful invocation is returned, and when all m+1 invocations fail the
\* exception of the last one is raised.
C20_MakeRetryableRequest ==
    \A x \in Executions :
        (Started(x) /\ request[x].made) =>
            LET m == request[x].max_retries
                n == Len(outcomes[x])
            IN
            /\ ~request[x].given => m = 5
            /\ strategy[x] = "with_retry"
            /\ config[x] = [max_retries |-> m, delay |-> R(1), delay_factor |-> R(2),
                            max_delay |-> R(60),
                            retry_on_exceptions |-> DEFAULT_RETRY_CONFIG.retry_on_exceptions]
            /\ calls[x] = n
            /\ calls[x] <= m + 1
            /\ \A i \in 1..(n - 1) : ~outcomes[x][i].ok
            /\ \A i \in 1..Len(delays[x]) : delays[x][i] = DelayForAttempt(config[x], i - 1)
            /\ (n >= 1 /\ outcomes[x][n].ok) =>
                    (Terminated(x) /\ result[x] = Return(outcomes[x][n].value))
            /\ (n = m + 1 /\ ~outcomes[x][n].ok) =>
                    (Terminated(x) /\ result[x] = Raise(outcomes[x][n].exc))
            /\ Terminated(x) => (outcomes[x][n].ok \/ n = m + 1)

C20_Witness ==
    \E x \in Executions :
        /\ request[x].made
        /\ ~request[x].given
        /\ Terminated(x)
        /\ calls[x] = 6
        /\ result[x] = Raise([kind |-> "ValueError", id |-> 6])

\* the part of the state that belongs to execution x
Own(x) ==
    <<pc[x], strategy[x], omitted[x], config[x], default_return[x], retry[x],
      calls[x], outcomes[x], pending[x], delays[x], result[x], log[x], request[x]>>

\* C12 (states): an invocation is preceded by as many delays as invocations came
\* before it, a delay in progress follows the failed invocation directly, and
\* at termination the delays slept number one less than the invocations.
C12_TraceShape ==
    \A x \in Executions :
        /\ (pc[x] = "call") => (Len(delays[x]) = calls[x] /\ calls[x] <= config[x].max_retries)
        /\ (pc[x] = "sleep") =>
                /\ Len(delays[x]) = calls[x] - 1
                /\ RetryableAt(x, calls[x])
                /\ calls[x] <= config[x].max_retries
        /\ Terminated(x) => (calls[x] >= 1 /\ Len(delays[x]) = calls[x] - 1)

\* C12 (steps): every step of an execution follows the state machine.  The
\* first step starts attempt 1 with no delay; an invocation happens only in
\* Attempting and leads to Success/Terminated or, exactly when it failed with a
\* retryable exception and attempts remain, to Retrying; a delay is slept only
\* in Retrying and leads straight back to Attempting; after Success or
\* Terminated nothing of the execution changes.
C12_TraceSteps ==
    \A x \in Executions :
        /\ (pc[x] = "idle" /\ pc'[x] # "idle") =>
                (pc'[x] = "call" /\ calls'[x] = 0 /\ delays'[x] = <<>>)
        /\ (calls'[x] # calls[x]) =>
                /\ pc[x] = "call"
                /\ calls'[x] = calls[x] + 1
                /\ delays'[x] = delays[x]
                /\ pc'[x] \in {"sleep", "done"}
                /\ (pc'[x] = "sleep") <=>
                        /\ ~outcomes'[x][calls'[x]].ok
                        /\ IsInstance(outcomes'[x][calls'[x]].exc.kind,
                                      config[x].retry_on_exceptions)
                        /\ calls'[x] <= config[x].max_retries
        /\ (pc[x] = "call" /\ pc'[x] # "call") => calls'[x] = calls[x] + 1
        /\ (delays'[x] # delays[x]) =>
                /\ pc[x] = "sleep"
                /\ delays'[x] = Append(delays[x], pending[x])
                /\ calls'[x] = calls[x]
                /\ pc'[x] = "call"
        /\ (pc[x] = "sleep" /\ pc'[x] # "sleep") => delays'[x] # delays[x]
        /\ (pc[x] = "done") => Own(x)' = Own(x)

\* C12: every execution's trace follows the per-execution state machine.
C12_StateMachine == [](C12_TraceShape) /\ [][C12_TraceSteps]_vars

C12_Witness ==
    \E x \in Executions :
        /\ Terminated(x)
        /\ config[x] = SCENARIO_CONFIG
        /\ calls[x] = 4
        /\ Len(delays[x]) = 3
        /\ ~outcomes[x][4].ok

\* C13 (resources): an execution never invokes func more than max_retries+1
\* times and never sleeps, or starts to sleep, more than max_retries delays.
C13_Bounded ==
    \A x \in Executions :
        Started(x) =>
            /\ calls[x] <= config[x].max_retries + 1
            /\ Len(delays[x]) + (IF pc[x] = "sleep" THEN 1 ELSE 0) <= config[x].max_retries

\* C13: when every invocation of func ends and every delay elapses, every
\* execution that was started reaches a terminal state, after at most
\* max_retries+1 invocations and max_retries delays, whatever func does.
C13_EventuallyTerminates ==
    /\ [](C13_Bounded)
    /\ \A x \in Executions : (Started(x) ~> Terminated(x))

C13_Witness ==
    \E x \in Executions :
        /\ Terminated(x)
        /\ config[x] = DB_RETRY_CONFIG
        /\ strategy[x] = "silent_retry"
        /\ calls[x] = 6
        /\ Len(delays[x]) = 5

\* C14: for every policy the RetryConfig constructor accepts, an execution
\* invokes func at least once and ends in exactly one of three ways: returning
\* the value func returned, raising an exception (with_retry), or returning
\* default_return after a failure (silent_retry); the loop never falls through.
C14_NoFallthrough ==
    \A x \in Executions :
        Terminated(x) =>
            /\ calls[x] >= 1
            /\ \/ /\ outcomes[x][calls[x]].ok
                  /\ result[x] = Return(outcomes[x][calls[x]].value)
               \/ /\ ~outcomes[x][calls[x]].ok
                  /\ strategy[x] = "with_retry"
                  /\ result[x].tag = "raise"
               \/ /\ ~outcomes[x][calls[x]].ok
                  /\ strategy[x] = "silent_retry"
                  /\ result[x] = Return(default_return[x])

\* C15: every RetryConfig in use satisfies max_retries >= 0, delay >= 0,
\* delay_factor >= 1 and max_delay >= delay.
C15_PolicyInvariant ==
    \A x \in Executions :
        Started(x) =>
            /\ config[x].max_retries >= 0
            /\ RLeq(R(0), config[x].delay)
            /\ RLeq(R(1), config[x].delay_factor)
            /\ RLeq(config[x].delay, config[x].max_delay)

\* the classes a RetryConfig built without retry_on_exceptions retries on
DefaultClasses == RetryConfig(0, R(0), R(1), R(0), NoneTuple).retry_on_exceptions

Logged(x, m) == {i \in 1..Len(log[x]) : log[x][i].msg = m}

\* C18: the four kinds of logger records occur exactly at their transitions:
\* one retry-scheduled record per delay, emitted before the delay is slept; a
\* recovered record if and only if the execution succeeded at attempt index
\* N > 0, and it reports N; a non-retryable record if and only if the execution
\* ended on an exception outside retry_on_exceptions; an exhausted record if and
\* only if it ended on a retryable exception at attempt index max_retries; and
\* no record at all when the first attempt succeeds.
C18_LogEvents ==
    \A x \in Executions :
        Started(x) =>
            LET n == Len(outcomes[x]) IN
            /\ Cardinality(Scheduled(x)) =
                    Len(delays[x]) + (IF pc[x] = "sleep" THEN 1 ELSE 0)
            /\ \A i \in Scheduled(x) : log[x][i].level = "info"
            /\ (Logged(x, "recovered") # {}) <=> (Terminated(x) /\ n >= 2 /\ outcomes[x][n].ok)
            /\ Cardinality(Logged(x, "recovered")) <= 1
            /\ \A i \in Logged(x, "recovered") : (log[x][i].n = n - 1 /\ i = Len(log[x]))
            /\ (Logged(x, "not_retryable") # {}) <=> (n >= 1 /\ FatalAt(x, n))
            /\ Cardinality(Logged(x, "not_retryable")) <= 1
            /\ (Logged(x, "exhausted") # {}) <=>
                    (Terminated(x) /\ n >= 1 /\ RetryableAt(x, n))
            /\ Cardinality(Logged(x, "exhausted")) <= 1
            /\ (Logged(x, "exhausted") # {}) => n - 1 = config[x].max_retries
            /\ (n >= 1 /\ outcomes[x][1].ok) => log[x] = <<>>

C18_Witness ==
    \E x \in Executions :
        /\ Terminated(x)
        /\ strategy[x] = "with_retry"
        /\ Len(outcomes[x]) = 3
        /\ outcomes[x][3].ok
        /\ Cardinality(Scheduled(x)) = 2
        /\ log[x][Len(log[x])] = Rec("info", "recovered", 2)

\* s is an initial part of t
IsPrefix(s, t) == Len(s) <= Len(t) /\ \A i \in 1..Len(s) : s[i] = t[i]

\* the delays x computed so far, the one being slept included
Waited(x) == IF pc[x] = "sleep" THEN Append(delays[x], pending[x]) ELSE delays[x]

\* C19: for a with_retry execution x and a silent_retry execution y with the
\* same policy, of which x's func has so far done what y's first invocations
\* did (or the reverse): the delays of the one are the first delays of the other;
\* if the one has ended the other has ended too, on the same outcomes, with the
\* same number of invocations and the same delays; a final success returns the same value from both; a final
\* failure is raised by with_retry and replaced by default_return by silent_retry.
C19_SameAttemptsAndDelays ==
    \A x, y \in Executions :
        (/\ strategy[x] = "with_retry"
         /\ strategy[y] = "silent_retry"
         /\ config[x] = config[y]) =>
            /\ \A a, b \in {x, y} :
                IsPrefix(outcomes[a], outcomes[b]) =>
                    /\ IsPrefix(Waited(a), Waited(b))
                    /\ Terminated(a) => (outcomes[a] = outcomes[b] /\ Terminated(b))
            /\ (Terminated(x) /\ Terminated(y) /\ outcomes[x] = outcomes[y]) =>
                    LET n == Len(outcomes[x]) IN
                    /\ calls[x] = calls[y]
                    /\ delays[x] = delays[y]
                    /\ n >= 1
                    /\ outcomes[x][n].ok =>
                            (result[x] = Return(outcomes[x][n].value) /\ result[y] = result[x])
                    /\ ~outcomes[x][n].ok =>
                            /\ result[x] = Raise(outcomes[x][n].exc)
                            /\ result[y] = Return(default_return[y])

C19_Witness ==
    /\ strategy["main"] = "with_retry"
    /\ strategy["other"] = "silent_retry"
    /\ config["main"] = config["other"]
    /\ Terminated("main")
    /\ Terminated("other")
    /\ outcomes["main"] = outcomes["other"]
    /\ calls["main"] = 3
    /\ delays["other"] = <<R(1), R(2)>>
    /\ ~outcomes["main"][3].ok
    /\ result["main"].tag = "raise"
    /\ result["other"] = Return("default")

\* invocation i is the last one of an execution with policy cfg whose func did outs
StopsAt(cfg, outs, i) ==
    \/ outs[i].ok
    \/ ~IsInstance(outs[i].exc.kind, cfg.retry_on_exceptions)
    \/ i - 1 >= cfg.max_retries

\* C16 (states): the executions that run share one policy, and for each of them
\* the number of invocations, the delays and the terminal outcome are what its
\* own outcomes and the policy give: no invocation follows a final one, the
\* execution has ended exactly when its last outcome is final, the delays are
\* min(delay * delay_factor^i, max_delay) for the failures retried, and the
\* result is the last outcome's value, its exception or default_return.
C16_OwnOutcomesOnly ==
    \A x \in Executions :
        Started(x) =>
            LET n == Len(outcomes[x])
                cfg == config[x]
                ended == n >= 1 /\ StopsAt(cfg, outcomes[x], n)
                k == IF ended THEN n - 1 ELSE n
            IN
            /\ \A y \in Executions : Started(y) => config[y] = cfg
            /\ calls[x] = n
            /\ \A i \in 1..(n - 1) : ~StopsAt(cfg, outcomes[x], i)
            /\ Terminated(x) <=> ended
            /\ Waited(x) = [i \in 1..k |-> DelayForAttempt(cfg, i - 1)]
            /\ Terminated(x) =>
                    result[x] =
                        IF outcomes[x][n].ok THEN Return(outcomes[x][n].value)
                        ELSE IF strategy[x] = "with_retry" THEN Raise(outcomes[x][n].exc)
                        ELSE Return(default_return[x])

\* C16 (steps): a step belongs to one execution and leaves the other's state as
\* it was, and no step changes a field of the policy of a running execution.
C16_NoInterference ==
    \A x \in Executions :
        /\ Started(x) => config'[x] = config[x]
        /\ \A y \in Executions \ {x} : (Own(y)' # Own(y)) => (Own(x)' = Own(x))

\* C16: concurrent executions sharing one policy are independent of each other
\* and leave the policy unchanged.
C16_SharedPolicyIndependence == [](C16_OwnOutcomesOnly) /\ [][C16_NoInterference]_vars

C16_Witness ==
    /\ config["main"] = test_config
    /\ config["other"] = test_config
    /\ strategy["main"] = "with_retry"
    /\ strategy["other"] = "with_retry"
    /\ Terminated("main")
    /\ calls["main"] = 4
    /\ ~outcomes["main"][4].ok
    /\ pc["other"] = "sleep"
    /\ calls["other"] = 2
    /\ delays["other"] = <<R(1)>>

====
